---- MODULE Spec2Model ----
(***************************************************************************)
(* Fp12 of ark-blstrs (src/src/fp12.rs): the degree-12 extension           *)
(*   Fp2  = Fp[u]  / (u^2 + 1)                                             *)
(*   Fp6  = Fp2[v] / (v^3 - (u + 1))                                       *)
(*   Fp12 = Fp6[w] / (w^2 - v)                                             *)
(* with its Frobenius maps, the cyclotomic exponentiation by the curve     *)
(* scalar, the subgroup test and the torus compression codec.              *)
(*                                                                         *)
(* An Fp element is an integer in 0..P-1, an Fp2 element a pair <<c0,c1>>  *)
(* of Fp, an Fp6 element a triple of Fp2, an Fp12 element a pair of Fp6.   *)
(* The base field is a prime field of the same shape as the BLS12-381 one  *)
(* (P = 3 mod 4, P = 1 mod 6, u + 1 neither a square nor a cube in Fp2),   *)
(* with a modulus small enough for machine integers; every constant that   *)
(* the source derives from the modulus (the Frobenius coefficients) is     *)
(* derived here from P by the same formula.  The scalar t of the addition  *)
(* chain is the source's 64-bit value, kept digit by digit.                *)
(***************************************************************************)
EXTENDS Integers, Sequences, FiniteSets, TLC

\* e, with v evaluated first.  TLC evaluates an operator's argument where it
\* is first used; the program evaluates the operands of a call before the
\* call, and each intermediate value of a chain before the next step.  An
\* intermediate value that the program uses more than once is the parameter
\* of an operator, so that its expression is written once.
After(v, e) == IF v = v THEN e ELSE e

\* The base-field modulus (the characteristic).
P == 883

\* Number of pseudo-random Fp12 operands drawn (Fp12::random in the tests).
NumSamples == 4

---------------------------------------------------------------------------
(* Fp: the prime field (crate::fp).                                        *)

FpAdd(a, b) == (a + b) % P
FpSub(a, b) == (a - b + P) % P
FpNeg(a) == (P - a) % P
FpMul(a, b) == (a * b) % P

RECURSIVE FpPow(_, _)
FpPow(a, e) ==
    IF e = 0 THEN 1
    ELSE LET last(s) == IF e % 2 = 1 THEN FpMul(s, a) ELSE s
             half(h) == last(FpMul(h, h))
         IN  half(FpPow(a, e \div 2))

\* the inverse of a non-zero element; 0 for 0
FpInv(a) == FpPow(a, P - 2)

---------------------------------------------------------------------------
(* Fp2 = Fp[u]/(u^2 + 1) (crate::fp2, the blst_fp2_* calls).               *)

Fp2Zero == <<0, 0>>
Fp2One == <<1, 0>>
Fp2Add(a, b) == <<FpAdd(a[1], b[1]), FpAdd(a[2], b[2])>>
Fp2Sub(a, b) == <<FpSub(a[1], b[1]), FpSub(a[2], b[2])>>
Fp2Neg(a) == <<FpNeg(a[1]), FpNeg(a[2])>>
Fp2Double(a) == Fp2Add(a, a)
Fp2Mul(a, b) ==
    After(a, After(b,
        <<FpSub(FpMul(a[1], b[1]), FpMul(a[2], b[2])),
          FpAdd(FpMul(a[1], b[2]), FpMul(a[2], b[1]))>>))
Fp2Square(a) == Fp2Mul(a, a)
Fp2Conjugate(a) == <<a[1], FpNeg(a[2])>>
Fp2Invert(a) ==
    LET scaled(nn) == <<FpMul(a[1], nn), FpMul(FpNeg(a[2]), nn)>>
    IN  After(a, scaled(FpInv(FpAdd(FpMul(a[1], a[1]), FpMul(a[2], a[2])))))

\* the non-residue u + 1 that defines Fp6
NonResidue == <<1, 1>>
\* x * (u + 1)
mul_by_nonresidue(x) == <<FpSub(x[1], x[2]), FpAdd(x[1], x[2])>>

RECURSIVE Fp2Pow(_, _)
Fp2Pow(a, e) ==
    IF e = 0 THEN Fp2One
    ELSE LET last(s) == IF e % 2 = 1 THEN Fp2Mul(s, a) ELSE s
             half(h) == After(h, last(Fp2Mul(h, h)))
         IN  half(Fp2Pow(a, e \div 2))

RECURSIVE IntPowMod(_, _, _)
IntPowMod(b, e, m) == IF e = 0 THEN 1 % m ELSE (IntPowMod(b, e - 1, m) * (b % m)) % m

\* 1 + P + ... + P^(i-1) modulo the order P^2 - 1 of the multiplicative
\* group of Fp2
RECURSIVE GeomSum(_)
GeomSum(i) ==
    IF i = 0 THEN 0
    ELSE (GeomSum(i - 1) + IntPowMod(P, i - 1, P * P - 1)) % (P * P - 1)

\* (u + 1)^(k * (P^i - 1) / d) for d dividing P - 1, using
\* (P^i - 1) / d = ((P - 1) / d) * (1 + P + ... + P^(i-1))
NonResiduePower(nk, ni, nd) ==
    LET ne == (((P - 1) \div nd) * GeomSum(ni)) % (P * P - 1)
    IN  Fp2Pow(NonResidue, (nk * ne) % (P * P - 1))

\* (u + 1)^(k (P - 1) / 6) and (u + 1)^(k (P^2 - 1) / 6) for k = 1..5
NONRESIDUE_1P == [sk \in 1..5 |-> NonResiduePower(sk, 1, 6)]
NONRESIDUE_2P == [sk \in 1..5 |-> NonResiduePower(sk, 2, 6)]
\* the "first-level" shifts mul_by_nonresidue_1p<k>: x * (u + 1)^(k (P - 1) / 6)
mul_by_nonresidue_1p(k, x) == Fp2Mul(x, NONRESIDUE_1P[k])
\* the "second-level" shifts mul_by_nonresidue_2p<k>: x * (u + 1)^(k (P^2 - 1) / 6)
mul_by_nonresidue_2p(k, x) == Fp2Mul(x, NONRESIDUE_2P[k])

---------------------------------------------------------------------------
(* Fp6 = Fp2[v]/(v^3 - (u + 1)) (crate::fp6).                              *)

Fp6Zero == <<Fp2Zero, Fp2Zero, Fp2Zero>>
Fp6One == <<Fp2One, Fp2Zero, Fp2Zero>>
Fp6Add(a, b) == <<Fp2Add(a[1], b[1]), Fp2Add(a[2], b[2]), Fp2Add(a[3], b[3])>>
Fp6Sub(a, b) == <<Fp2Sub(a[1], b[1]), Fp2Sub(a[2], b[2]), Fp2Sub(a[3], b[3])>>
Fp6Neg(a) == <<Fp2Neg(a[1]), Fp2Neg(a[2]), Fp2Neg(a[3])>>
Fp6Mul(a, b) ==
    After(a, After(b,
        <<Fp2Add(Fp2Mul(a[1], b[1]),
                 mul_by_nonresidue(Fp2Add(Fp2Mul(a[2], b[3]), Fp2Mul(a[3], b[2])))),
          Fp2Add(Fp2Add(Fp2Mul(a[1], b[2]), Fp2Mul(a[2], b[1])),
                 mul_by_nonresidue(Fp2Mul(a[3], b[3]))),
          Fp2Add(Fp2Add(Fp2Mul(a[1], b[3]), Fp2Mul(a[2], b[2])),
                 Fp2Mul(a[3], b[1]))>>))
\* a * v
Fp6MulByV(a) == <<mul_by_nonresidue(a[3]), a[1], a[2]>>
Fp6IsZero(a) == a = Fp6Zero

\* Fp6::invert: a CtOption, empty for zero
Fp6Invert(a) ==
    LET cofactors(t0, t1, t2) ==
            LET scaled(nn) ==
                    [is_some |-> ~Fp6IsZero(a),
                     value |-> <<Fp2Mul(t0, nn), Fp2Mul(t1, nn), Fp2Mul(t2, nn)>>]
            IN  After(t0, After(t1, After(t2,
                    scaled(Fp2Invert(
                        Fp2Add(Fp2Mul(a[1], t0),
                               mul_by_nonresidue(Fp2Add(Fp2Mul(a[3], t1),
                                                        Fp2Mul(a[2], t2)))))))))
    IN  After(a,
            cofactors(
                Fp2Sub(Fp2Square(a[1]), mul_by_nonresidue(Fp2Mul(a[2], a[3]))),
                Fp2Sub(mul_by_nonresidue(Fp2Square(a[3])), Fp2Mul(a[1], a[2])),
                Fp2Sub(Fp2Square(a[2]), Fp2Mul(a[1], a[3]))))

\* (u + 1)^((P^i - 1) / 3) and (u + 1)^(2 (P^i - 1) / 3) for i = 0..5
FROBENIUS_COEFF_FP6_C1 == [sk \in 0..5 |-> NonResiduePower(1, sk, 3)]
FROBENIUS_COEFF_FP6_C2 == [sk \in 0..5 |-> NonResiduePower(2, sk, 3)]

\* Fp6::frobenius_map(power): c -> c^(P^power)
Fp6_frobenius_map(c6, pw) ==
    LET f6(z6) == IF pw % 2 = 1 THEN Fp2Conjugate(z6) ELSE z6
    IN  <<f6(c6[1]),
          Fp2Mul(f6(c6[2]), FROBENIUS_COEFF_FP6_C1[pw % 6]),
          Fp2Mul(f6(c6[3]), FROBENIUS_COEFF_FP6_C2[pw % 6])>>

---------------------------------------------------------------------------
(* Fp12 = Fp6[w]/(w^2 - v): representation and field operations.           *)

new(a0, a1) == <<a0, a1>>
c0(a) == a[1]
c1(a) == a[2]
zero == new(Fp6Zero, Fp6Zero)
one == new(Fp6One, Fp6Zero)

ct_eq(a, b) == c0(a) = c0(b) /\ c1(a) = c1(b)
add(a, b) == new(Fp6Add(c0(a), c0(b)), Fp6Add(c1(a), c1(b)))
sub(a, b) == new(Fp6Sub(c0(a), c0(b)), Fp6Sub(c1(a), c1(b)))
neg(a) == new(Fp6Neg(c0(a)), Fp6Neg(c1(a)))
\* blst_fp12_mul
mul(a, b) ==
    After(a, After(b,
        new(Fp6Add(Fp6Mul(c0(a), c0(b)), Fp6MulByV(Fp6Mul(c1(a), c1(b)))),
            Fp6Add(Fp6Mul(c0(a), c1(b)), Fp6Mul(c1(a), c0(b))))))
\* blst_fp12_sqr
square(a) == mul(a, a)
\* blst_fp12_conjugate
conjugate(a) == After(a, new(c0(a), Fp6Neg(c1(a))))

\* blst_fp12_inverse: (c0 - c1 w) / (c0^2 - v c1^2); zero for zero
blst_fp12_inverse(a) ==
    LET scaled(nn) == new(Fp6Mul(c0(a), nn), Fp6Neg(Fp6Mul(c1(a), nn)))
    IN  After(a,
            scaled(Fp6Invert(Fp6Sub(Fp6Mul(c0(a), c0(a)),
                                    Fp6MulByV(Fp6Mul(c1(a), c1(a))))).value))

\* invert with the zero test dropped: the option is always full
invert_unchecked(a) ==
    After(a, [is_some |-> TRUE, value |-> blst_fp12_inverse(a)])

\* Field::invert: CtOption::new(inv, !is_zero)
invert(a) ==
    After(a, [is_some |-> ~ct_eq(a, zero), value |-> blst_fp12_inverse(a)])

\* pow_vartime by a machine-integer exponent (square and multiply)
RECURSIVE pow_vartime(_, _)
pow_vartime(a, e) ==
    After(a,
        IF e = 0 THEN one
        ELSE IF e % 2 = 1 THEN mul(square(pow_vartime(a, e \div 2)), a)
        ELSE square(pow_vartime(a, e \div 2)))

\* pow_vartime by an exponent given by its decimal digits, most significant
\* first (for exponents wider than a machine integer)
\* a^(10^n): n times the tenth power
RECURSIVE pow10n(_, _)
pow10n(a, n) ==
    After(a,
        IF n = 0 THEN a
        ELSE IF n = 1 THEN pow_vartime(a, 10)
        ELSE pow10n(pow10n(a, n \div 2), n - n \div 2))

\* a^[front ++ back] = (a^front)^(10^Len(back)) * a^back
RECURSIVE pow_digits(_, _)
pow_digits(a, ds) ==
    IF Len(ds) = 0 THEN one
    ELSE IF Len(ds) = 1 THEN pow_vartime(a, ds[1])
    ELSE LET m == Len(ds) \div 2
         IN  mul(pow10n(pow_digits(a, SubSeq(ds, 1, Len(ds) - m)), m),
                 pow_digits(a, SubSeq(ds, Len(ds) - m + 1, Len(ds))))

---------------------------------------------------------------------------
(* Cyclotomic exponentiation (fixed addition chain).                       *)

\* cyclotomic_square with t8 left without its multiplication by the
\* non-residue
cyclotomic_square_plain_t8(z, xx) ==
    LET x00 == c0(xx)[1]
        x01 == c0(xx)[2]
        x02 == c0(xx)[3]
        x10 == c1(xx)[1]
        x11 == c1(xx)[2]
        x12 == c1(xx)[3]
        \* "c = t - x; c = c.double(); c += t" and "c = t + x; ..."
        minus_double_plus(t, xk) == Fp2Add(Fp2Double(Fp2Sub(t, xk)), t)
        plus_double_plus(t, xk) == Fp2Add(Fp2Double(Fp2Add(t, xk)), t)
        squares(t0a, t1, t2a, t3, t4a, t5) ==
            LET t6 == Fp2Sub(Fp2Sub(Fp2Square(Fp2Add(x11, x00)), t0a), t1)
                t7 == Fp2Sub(Fp2Sub(Fp2Square(Fp2Add(x02, x10)), t2a), t3)
                t8 == Fp2Sub(Fp2Sub(Fp2Square(Fp2Add(x12, x01)), t4a), t5)
                t0 == Fp2Add(mul_by_nonresidue(t0a), t1)
                t2 == Fp2Add(mul_by_nonresidue(t2a), t3)
                t4 == Fp2Add(mul_by_nonresidue(t4a), t5)
            IN  new(<<minus_double_plus(t0, x00),
                      minus_double_plus(t2, x01),
                      minus_double_plus(t4, x02)>>,
                    <<plus_double_plus(t8, x10),
                      plus_double_plus(t6, x11),
                      plus_double_plus(t7, x12)>>)
    IN  After(xx, squares(Fp2Square(x11), Fp2Square(x00), Fp2Square(x02),
                          Fp2Square(x10), Fp2Square(x12), Fp2Square(x01)))

\* cyclotomic_square(&mut self, x): *self is overwritten with the result
cyclotomic_square(z, xx) ==
    LET x00 == c0(xx)[1]
        x01 == c0(xx)[2]
        x02 == c0(xx)[3]
        x10 == c1(xx)[1]
        x11 == c1(xx)[2]
        x12 == c1(xx)[3]
        \* "c = t - x; c = c.double(); c += t" and "c = t + x; ..."
        minus_double_plus(t, xk) == Fp2Add(Fp2Double(Fp2Sub(t, xk)), t)
        plus_double_plus(t, xk) == Fp2Add(Fp2Double(Fp2Add(t, xk)), t)
        squares(t0a, t1, t2a, t3, t4a, t5) ==
            LET t6 == Fp2Sub(Fp2Sub(Fp2Square(Fp2Add(x11, x00)), t0a), t1)
                t7 == Fp2Sub(Fp2Sub(Fp2Square(Fp2Add(x02, x10)), t2a), t3)
                t8 == mul_by_nonresidue(
                          Fp2Sub(Fp2Sub(Fp2Square(Fp2Add(x12, x01)), t4a), t5))
                t0 == Fp2Add(mul_by_nonresidue(t0a), t1)
                t2 == Fp2Add(mul_by_nonresidue(t2a), t3)
                t4 == Fp2Add(mul_by_nonresidue(t4a), t5)
            IN  new(<<minus_double_plus(t0, x00),
                      minus_double_plus(t2, x01),
                      minus_double_plus(t4, x02)>>,
                    <<plus_double_plus(t8, x10),
                      plus_double_plus(t6, x11),
                      plus_double_plus(t7, x12)>>)
    IN  After(xx, squares(Fp2Square(x11), Fp2Square(x00), Fp2Square(x02),
                          Fp2Square(x10), Fp2Square(x12), Fp2Square(x01)))

\* nsquare(&mut self, n): n times self.cyclotomic_square(&self.clone()),
\* the first n \div 2 of them and then the rest
RECURSIVE nsquare(_, _)
nsquare(z, n) ==
    After(z,
        IF n = 0 THEN z
        ELSE IF n = 1 THEN cyclotomic_square(z, z)
        ELSE nsquare(nsquare(z, n \div 2), n - n \div 2))

\* expt_half with one squaring fewer in its longest run: nsquare(31)
expt_half_short(z, xx) ==
    conjugate(
        nsquare(mul(
            nsquare(mul(
                nsquare(mul(
                    nsquare(mul(
                        nsquare(mul(
                            cyclotomic_square(z, xx), xx), 2), xx), 3), xx), 9), xx), 31), xx), 15))

\* expt_half(&mut self, x): sets self to x^(t/2)
expt_half(z, xx) ==
    conjugate(
        nsquare(mul(
            nsquare(mul(
                nsquare(mul(
                    nsquare(mul(
                        nsquare(mul(
                            cyclotomic_square(z, xx), xx), 2), xx), 3), xx), 9), xx), 32), xx), 15))

\* expt without its final squaring: x^(t/2)
expt_unsquared(z, xx) ==
    expt_half(zero, xx)

\* expt(&mut self, x): sets self to x^t
expt(z, xx) ==
    cyclotomic_square(z, expt_half(zero, xx))

\* the scalar t of expt, "const t uint64 = 15132376222941642752 // negative",
\* by its decimal digits
TAbsDigits == <<1, 5, 1, 3, 2, 3, 7, 6, 2, 2, 2, 9, 4, 1, 6, 4, 2, 7, 5, 2>>

\* "const t/2 uint64 = 7566188111470821376 // negative", by its decimal digits
THalfDigits == <<7, 5, 6, 6, 1, 8, 8, 1, 1, 1, 4, 7, 0, 8, 2, 1, 3, 7, 6>>

\* the body of expt_half, statement by statement
ExptHalfStatements ==
    << [stmt |-> "cyclotomic_square", n |-> 1],
       [stmt |-> "mul_assign", n |-> 0],
       [stmt |-> "nsquare", n |-> 2],
       [stmt |-> "mul_assign", n |-> 0],
       [stmt |-> "nsquare", n |-> 3],
       [stmt |-> "mul_assign", n |-> 0],
       [stmt |-> "nsquare", n |-> 9],
       [stmt |-> "mul_assign", n |-> 0],
       [stmt |-> "nsquare", n |-> 32],
       [stmt |-> "mul_assign", n |-> 0],
       [stmt |-> "nsquare", n |-> 15],
       [stmt |-> "conjugate", n |-> 0] >>

\* the exponent of x that self holds after one more squaring: twice ds,
\* on decimal digits
RECURSIVE DecDouble(_, _)
DecDouble(ds, carry) ==
    IF ds = <<>> THEN (IF carry = 0 THEN <<>> ELSE <<carry>>)
    ELSE Append(DecDouble(SubSeq(ds, 1, Len(ds) - 1),
                          (2 * ds[Len(ds)] + carry) \div 10),
                (2 * ds[Len(ds)] + carry) % 10)

\* the exponent of x that self holds after one more multiplication by x:
\* ds plus one, on decimal digits
RECURSIVE DecSucc(_)
DecSucc(ds) ==
    IF ds = <<>> THEN <<1>>
    ELSE IF ds[Len(ds)] < 9 THEN [ds EXCEPT ![Len(ds)] = @ + 1]
    ELSE Append(DecSucc(SubSeq(ds, 1, Len(ds) - 1)), 0)

---------------------------------------------------------------------------
(* Frobenius endomorphism.                                                 *)

\* frobenius_square(&mut self, x): sets self to Frobenius^2(x)
frobenius_square(z, xx) ==
    After(xx, new(<<c0(xx)[1],
          mul_by_nonresidue_2p(2, c0(xx)[2]),
          mul_by_nonresidue_2p(4, c0(xx)[3])>>,
        <<mul_by_nonresidue_2p(1, c1(xx)[1]),
          mul_by_nonresidue_2p(3, c1(xx)[2]),
          mul_by_nonresidue_2p(5, c1(xx)[3])>>))

\* frobenius with the shifts of c0.c1 and c1.c0 exchanged
frobenius_swapped(z, xx) ==
    After(xx, new(<<Fp2Conjugate(c0(xx)[1]),
          mul_by_nonresidue_1p(1, Fp2Conjugate(c0(xx)[2])),
          mul_by_nonresidue_1p(4, Fp2Conjugate(c0(xx)[3]))>>,
        <<mul_by_nonresidue_1p(2, Fp2Conjugate(c1(xx)[1])),
          mul_by_nonresidue_1p(3, Fp2Conjugate(c1(xx)[2])),
          mul_by_nonresidue_1p(5, Fp2Conjugate(c1(xx)[3]))>>))

\* frobenius(&mut self, x): sets self to Frobenius(x)
frobenius(z, xx) ==
    After(xx, new(<<Fp2Conjugate(c0(xx)[1]),
          mul_by_nonresidue_1p(2, Fp2Conjugate(c0(xx)[2])),
          mul_by_nonresidue_1p(4, Fp2Conjugate(c0(xx)[3]))>>,
        <<mul_by_nonresidue_1p(1, Fp2Conjugate(c1(xx)[1])),
          mul_by_nonresidue_1p(3, Fp2Conjugate(c1(xx)[2])),
          mul_by_nonresidue_1p(5, Fp2Conjugate(c1(xx)[3]))>>))

\* non_residue^((modulus^i-1)/6) for i=0,...,11
FROBENIUS_COEFF_FP12_C1 == [sk \in 0..11 |-> NonResiduePower(1, sk, 6)]

\* (u + 1)^(k (P^n - 1) / 6) for n = 1..3 and k = 0..5
BLST_FROBENIUS_COEFF == [sn \in 1..3 |-> [sk \in 0..5 |-> NonResiduePower(sk, sn, 6)]]

\* blst_fp12_frobenius_map(ret, a, n) for n in 1..3: a^(P^n), coordinate by
\* coordinate in the basis 1, w, ..., w^5 over Fp2
blst_fp12_frobenius_map(a, n) ==
    LET f12(wk, zz) == Fp2Mul(IF n % 2 = 1 THEN Fp2Conjugate(zz) ELSE zz,
                              BLST_FROBENIUS_COEFF[n][wk])
    IN  new(<<f12(0, c0(a)[1]), f12(2, c0(a)[2]), f12(4, c0(a)[3])>>,
            <<f12(1, c1(a)[1]), f12(3, c1(a)[2]), f12(5, c1(a)[3])>>)

\* frobenius_map with the Fp12 coefficient indexed by power % 6, the index
\* of the Fp6 tables
frobenius_map_mod6(a, power) ==
    After(a,
    IF power > 0 /\ power < 4
    THEN blst_fp12_frobenius_map(a, power)
    ELSE LET f0 == Fp6_frobenius_map(c0(a), power)
             f1 == Fp6_frobenius_map(c1(a), power)
             c0_raw == Fp2Mul(f1[1], FROBENIUS_COEFF_FP12_C1[power % 6])
             c1_raw == Fp2Mul(f1[2], FROBENIUS_COEFF_FP12_C1[power % 6])
             c2_raw == Fp2Mul(f1[3], FROBENIUS_COEFF_FP12_C1[power % 6])
         IN  new(f0, <<c0_raw, c1_raw, c2_raw>>))

\* frobenius_map(&mut self, power)
frobenius_map(a, power) ==
    After(a,
    IF power > 0 /\ power < 4
    THEN blst_fp12_frobenius_map(a, power)
    ELSE LET f0 == Fp6_frobenius_map(c0(a), power)
             f1 == Fp6_frobenius_map(c1(a), power)
             c0_raw == Fp2Mul(f1[1], FROBENIUS_COEFF_FP12_C1[power % 12])
             c1_raw == Fp2Mul(f1[2], FROBENIUS_COEFF_FP12_C1[power % 12])
             c2_raw == Fp2Mul(f1[3], FROBENIUS_COEFF_FP12_C1[power % 12])
         IN  new(f0, <<c0_raw, c1_raw, c2_raw>>))

---------------------------------------------------------------------------
(* Subgroup membership.                                                    *)

\* is_in_subgroup(&self): the value returned, the lines printed and the
\* checks evaluated
\* with a1 = Frobenius^2(self) and b1 = Frobenius^2(a1) * self
is_in_subgroup_checks(a, a1, b1) ==
    IF a1 # b1
    THEN [ret |-> FALSE, stdout |-> <<"FAILED FIRST TEST">>,
          evaluated |-> <<"first">>]
    ELSE [ret |-> frobenius(a1, a) = expt(b1, a),
          stdout |-> <<"FAILED SECOND TEST?">>,
          evaluated |-> <<"first", "second">>]
is_in_subgroup_first(a, a1) ==
    After(a1, is_in_subgroup_checks(a, a1, mul(frobenius_square(zero, a1), a)))
is_in_subgroup(a) ==
    After(a, is_in_subgroup_first(a, frobenius_square(zero, a)))

\* is_cyc(&self)
is_cyc(a) ==
    After(a, mul(frobenius_map(a, 4), a) = frobenius_map(a, 2))

---------------------------------------------------------------------------
(* Torus-based compression codec.                                          *)

None == [kind |-> "None", value |-> <<>>]
Some(v) == [kind |-> "Some", value |-> v]
\* a panic (CtOption::unwrap or Option::unwrap on an empty value)
Panic == [kind |-> "panic", value |-> <<>>]
Ok(v) == [kind |-> "Ok", value |-> v]
Err(k) == [kind |-> "Err", value |-> k]

\* compress without the increment of c0.c0
compress_without_one(a) ==
    After(a,
    IF ~is_cyc(a) THEN None
    ELSE LET divided(inv) == IF ~inv.is_some THEN Panic
                             ELSE Some(Fp6Mul(c0(a), inv.value))
         IN  divided(Fp6Invert(c1(a))))

\* compress(&self) -> Option<Fp12Compressed>
compress(a) ==
    After(a,
    IF ~is_cyc(a) THEN None
    ELSE LET c00 == Fp2Add(c0(a)[1], Fp2One)
             cc0 == <<c00, c0(a)[2], c0(a)[3]>>
             divided(inv) == IF ~inv.is_some THEN Panic
                             ELSE Some(Fp6Mul(cc0, inv.value))
         IN  divided(Fp6Invert(c1(a))))

\* Fp12Compressed::uncompress(self) -> Option<Fp12>
\* the reconstructed value returned without the cyclotomic check
uncompress_unchecked(c) ==
    After(c, Some(c))

\* "if c.is_cyc() { Some(c) } else { None }"
uncompress_checked(c) ==
    After(c, IF is_cyc(c) THEN Some(c) ELSE None)
\* with t = Fp12::new(b, -1).invert(): "t.unwrap(); c = Fp12::new(b, 1); c *= t"
uncompress_unwrapped(bb, t) ==
    After(t, IF ~t.is_some THEN Panic
             ELSE uncompress_checked(mul(new(bb, Fp6One), t.value)))
\* uncompress inverting (b, 1) instead of (b, -1)
uncompress_sign_slip(bb) ==
    After(bb, uncompress_unwrapped(bb, invert(new(bb, Fp6One))))

uncompress(bb) ==
    After(bb, uncompress_unwrapped(bb, invert(new(bb, Fp6Neg(Fp6One)))))

\* width in bytes of an encoded Fp element: "let mut buffer = [0u8; 48]"
FpBytes == 48

\* the number of bytes that hold every value below P
FpWidth == CHOOSE bw \in 1..FpBytes : 256^bw >= P /\ 256^(bw - 1) < P

\* Fp::to_bytes_le: fixed-width little-endian (the bytes above FpWidth of
\* a value below P are zero)
to_bytes_le(f) ==
    [bi \in 1..FpBytes |-> IF bi > FpWidth THEN 0 ELSE (f \div 256^(bi - 1)) % 256]

\* the little-endian value of the first k bytes
RECURSIVE le_value(_, _)
le_value(bytes, k) ==
    IF k = 0 THEN 0 ELSE le_value(bytes, k - 1) + bytes[k] * 256^(k - 1)

\* Fp::from_bytes_le: a CtOption, empty unless the value is below P (a
\* non-zero byte above FpWidth makes the value exceed P)
from_bytes_le(bytes) ==
    LET v == le_value(bytes, FpWidth)
        canonical == v < P /\ \A bi \in (FpWidth + 1)..FpBytes : bytes[bi] = 0
    IN  [is_some |-> canonical, value |-> IF canonical THEN v ELSE 0]

\* Compress::write_compressed(self, out) into a Vec<u8>: the outcome and
\* the bytes written
write_compressed(a) ==
    LET written(c) ==
            After(c,
            IF c.kind # "Some" THEN [result |-> Panic, bytes |-> <<>>]
            ELSE [result |-> Ok(<<>>),
                  bytes |-> to_bytes_le(c.value[1][1]) \o to_bytes_le(c.value[1][2])
                         \o to_bytes_le(c.value[2][1]) \o to_bytes_le(c.value[2][2])
                         \o to_bytes_le(c.value[3][1]) \o to_bytes_le(c.value[3][2])])
    IN  written(compress(a))

\* the closure read_fp of read_compressed, on the k-th chunk of the source
read_fp(source, k) ==
    IF Len(source) < k * FpBytes THEN Err("UnexpectedEof")
    ELSE LET fp == from_bytes_le(SubSeq(source, (k - 1) * FpBytes + 1, k * FpBytes))
         IN  IF fp.is_some THEN Ok(fp.value) ELSE Err("InvalidData")

\* Compress::read_compressed(source)
read_compressed(source) ==
    LET r(k) == read_fp(source, k)
        bad == {k \in 1..6 : r(k).kind = "Err"}
    IN  IF bad # {}
        THEN r(CHOOSE k \in bad : \A j \in bad : k <= j)
        ELSE LET compressed == <<<<r(1).value, r(2).value>>,
                                 <<r(3).value, r(4).value>>,
                                 <<r(5).value, r(6).value>>>>
                 ok_or(u) == IF u.kind = "Some" THEN Ok(u.value)
                             ELSE IF u.kind = "None" THEN Err("InvalidData")
                             ELSE Panic
             IN  ok_or(uncompress(compressed))

---------------------------------------------------------------------------
(* Operands.                                                               *)

\* the k-th pseudo-random element (Fp12::random of the tests)
Coord(k, j) == (k * k * 131 + j * 577 + k * j * 89 + 7) % P
Sample(k) ==
    new(<<<<Coord(k, 1), Coord(k, 2)>>, <<Coord(k, 3), Coord(k, 4)>>,
          <<Coord(k, 5), Coord(k, 6)>>>>,
        <<<<Coord(k, 7), Coord(k, 8)>>, <<Coord(k, 9), Coord(k, 10)>>,
          <<Coord(k, 11), Coord(k, 12)>>>>)
Samples == {Sample(k) : k \in 1..NumSamples}

\* a^((P^6 - 1)(P^2 + 1)), the "easy part" of the final exponentiation of a
\* pairing: an element of the cyclotomic subgroup
\* f^(P^2 + 1)
FrobeniusSquarePlusOne(f) ==
    After(f, mul(pow_vartime(pow_vartime(f, P), P), f))
EasyPart(a) ==
    FrobeniusSquarePlusOne(mul(conjugate(a), invert(a).value))
CycSamples == {EasyPart(a) : a \in Samples}

\* the cyclotomic subgroup has P^4 - P^2 + 1 = 61 * 9965805853 elements;
\* g^9965805853 has order 1 or 61
TorsionSamples == {pow_digits(g, <<9, 9, 6, 5, 8, 0, 5, 8, 5, 3>>) : g \in CycSamples}

\* elements of the subfield Fp6 (From<Fp6>)
SubfieldSamples == {new(c0(a), Fp6Zero) : a \in Samples}

Inputs ==
    {zero, one, neg(one)} \cup Samples \cup CycSamples \cup TorsionSamples
        \cup SubfieldSamples

\* the encoding of the six coordinates of a compressed value, as
\* write_compressed writes them
encode(b) ==
    to_bytes_le(b[1][1]) \o to_bytes_le(b[1][2]) \o to_bytes_le(b[2][1])
        \o to_bytes_le(b[2][2]) \o to_bytes_le(b[3][1]) \o to_bytes_le(b[3][2])

\* ways a byte stream is damaged: chunk k replaced by the encoding of P
\* ("modulus", the least non-canonical value), chunk k with its most
\* significant byte set to 255 ("high"), the last byte missing ("short")
Damages ==
    {[kind |-> "none", chunk |-> 0], [kind |-> "short", chunk |-> 6]}
        \cup [kind : {"modulus", "high"}, chunk : 1..6]
damage(bytes, d) ==
    CASE d.kind = "none" -> bytes
      [] d.kind = "short" -> SubSeq(bytes, 1, Len(bytes) - 1)
      [] d.kind = "modulus" ->
            [bi \in 1..Len(bytes) |->
                IF (bi - 1) \div FpBytes = d.chunk - 1
                THEN to_bytes_le(P)[((bi - 1) % FpBytes) + 1] ELSE bytes[bi]]
      [] d.kind = "high" ->
            [bi \in 1..Len(bytes) |->
                IF bi = d.chunk * FpBytes THEN 255 ELSE bytes[bi]]

---------------------------------------------------------------------------
(* The state: an operand x, the last operation op and its result res; the  *)
(* byte stream buf written or read, with the damage dmg done to it; the    *)
(* compressed value comp; acc = x raised n times to the characteristic.    *)

\* "let maxpower = 13" of fp12_random_frobenius_tests
maxpower == 13

\* the largest n of the calls nsquare(n) explored
MaxNsquare == 6

VARIABLES x, op, res, comp, buf, dmg, n, acc

vars == <<x, op, res, comp, buf, dmg, n, acc>>

NoDamage == [kind |-> "none", chunk |-> 0]

Init ==
    /\ x \in Inputs
    /\ op = "pick"
    /\ res = <<>>
    /\ comp = <<>>
    /\ buf = <<>>
    /\ dmg = NoDamage
    /\ n = 0
    /\ acc = x

\* a.invert()
Invert ==
    /\ op = "pick"
    /\ op' = "invert"
    /\ res' = invert(x)
    /\ UNCHANGED <<x, comp, buf, dmg, n, acc>>

\* a = a.pow_vartime(&characteristic), once more
PowChar ==
    /\ op \in {"pick", "pow"}
    /\ n < maxpower
    /\ op' = "pow"
    /\ acc' = pow_vartime(acc, P)
    /\ n' = n + 1
    /\ UNCHANGED <<x, res, comp, buf, dmg>>

\* b.frobenius_map(i), with i the number of times a was raised
FrobeniusMap ==
    /\ op \in {"pick", "pow"}
    /\ op' = "frobenius_map"
    /\ res' = frobenius_map(x, n)
    /\ UNCHANGED <<x, comp, buf, dmg, n, acc>>

\* z.frobenius(&x)
Frobenius ==
    /\ op = "pick"
    /\ op' = "frobenius"
    /\ res' = frobenius(zero, x)
    /\ UNCHANGED <<x, comp, buf, dmg, n, acc>>

\* z.frobenius_square(&x)
FrobeniusSquare ==
    /\ op = "pick"
    /\ op' = "frobenius_square"
    /\ res' = frobenius_square(zero, x)
    /\ UNCHANGED <<x, comp, buf, dmg, n, acc>>

\* a.is_in_subgroup()
IsInSubgroup ==
    /\ op = "pick"
    /\ op' = "is_in_subgroup"
    /\ res' = is_in_subgroup(x)
    /\ UNCHANGED <<x, comp, buf, dmg, n, acc>>

\* a.compress()
Compress ==
    /\ op = "pick"
    /\ op' = "compress"
    /\ res' = compress(x)
    /\ comp' = IF res'.kind = "Some" THEN res'.value ELSE <<>>
    /\ UNCHANGED <<x, buf, dmg, n, acc>>

\* b.uncompress() of the value a.compress() returned
Uncompress ==
    /\ op = "compress"
    /\ res.kind = "Some"
    /\ op' = "uncompress"
    /\ res' = uncompress(comp)
    /\ UNCHANGED <<x, comp, buf, dmg, n, acc>>

\* uncompress of an arbitrary cubic-extension value (a coordinate of x)
UncompressAny ==
    /\ op = "pick"
    /\ \E b \in {c0(x), c1(x)} :
        /\ comp' = b
        /\ res' = uncompress(b)
    /\ op' = "uncompress_any"
    /\ UNCHANGED <<x, buf, dmg, n, acc>>

\* a.write_compressed(&mut buffer)
WriteCompressed ==
    /\ op = "pick"
    /\ op' = "write_compressed"
    /\ \E w \in {write_compressed(x)} :
        res' = w.result /\ buf' = w.bytes
    /\ UNCHANGED <<x, comp, dmg, n, acc>>

\* Fp12::read_compressed of the bytes written, possibly damaged on the way
ReadCompressed ==
    /\ op = "write_compressed"
    /\ res.kind = "Ok"
    /\ \E d \in Damages :
        /\ dmg' = d
        /\ buf' = damage(buf, d)
        /\ res' = read_compressed(buf')
    /\ op' = "read_compressed"
    /\ UNCHANGED <<x, comp, n, acc>>

\* Fp12::read_compressed of the encoding of an arbitrary cubic-extension
\* value (a coordinate of x)
ReadAny ==
    /\ op = "pick"
    /\ \E b \in {c0(x), c1(x)} :
        /\ comp' = b
        /\ buf' = encode(b)
        /\ res' = read_compressed(buf')
    /\ op' = "read_any"
    /\ UNCHANGED <<x, dmg, n, acc>>

\* a.is_cyc()
IsCyc ==
    /\ op = "pick"
    /\ op' = "is_cyc"
    /\ res' = is_cyc(x)
    /\ UNCHANGED <<x, comp, buf, dmg, n, acc>>

\* z.expt_half(&x), first statement: self.cyclotomic_square(x), whatever
\* self held before
ExptHalfCyclotomicSquare ==
    /\ op = "pick"
    /\ ExptHalfStatements[1].stmt = "cyclotomic_square"
    /\ op' = "expt_half"
    /\ \E z \in {zero, one, x} :
           res' = [pc |-> 2, iter |-> 0, before |-> z,
                   self |-> cyclotomic_square(z, x),
                   squarings |-> 1, mul_at |-> <<>>,
                   exponent |-> <<2>>]
    /\ UNCHANGED <<x, comp, buf, dmg, n, acc>>

\* z.expt_half(&x), a statement self.mul_assign(x)
ExptHalfMulAssign ==
    /\ op = "expt_half"
    /\ res.pc <= Len(ExptHalfStatements)
    /\ ExptHalfStatements[res.pc].stmt = "mul_assign"
    /\ res' = [res EXCEPT !.pc = @ + 1,
                          !.self = mul(@, x),
                          !.mul_at = Append(@, res.squarings),
                          !.exponent = DecSucc(@)]
    /\ UNCHANGED <<x, op, comp, buf, dmg, n, acc>>

\* z.expt_half(&x), one turn of the loop of a statement self.nsquare(n):
\* self.cyclotomic_square(&self.clone())
ExptHalfNsquare ==
    /\ op = "expt_half"
    /\ res.pc <= Len(ExptHalfStatements)
    /\ ExptHalfStatements[res.pc].stmt = "nsquare"
    /\ res.iter < ExptHalfStatements[res.pc].n
    /\ res' = [res EXCEPT
                 !.pc = IF res.iter + 1 = ExptHalfStatements[res.pc].n
                        THEN @ + 1 ELSE @,
                 !.iter = IF res.iter + 1 = ExptHalfStatements[res.pc].n
                          THEN 0 ELSE @ + 1,
                 !.self = cyclotomic_square(@, @),
                 !.squarings = @ + 1,
                 !.exponent = DecDouble(@, 0)]
    /\ UNCHANGED <<x, op, comp, buf, dmg, n, acc>>

\* z.expt_half(&x), last statement: self.conjugate()
ExptHalfConjugate ==
    /\ op = "expt_half"
    /\ res.pc <= Len(ExptHalfStatements)
    /\ ExptHalfStatements[res.pc].stmt = "conjugate"
    /\ res' = [res EXCEPT !.pc = @ + 1, !.self = conjugate(@)]
    /\ UNCHANGED <<x, op, comp, buf, dmg, n, acc>>

\* z.cyclotomic_square(&x), whatever z held before
CyclotomicSquare ==
    /\ op = "pick"
    /\ op' = "cyclotomic_square"
    /\ \E z \in {zero, x} : res' = cyclotomic_square(z, x)
    /\ UNCHANGED <<x, comp, buf, dmg, n, acc>>

\* a.nsquare(k)
Nsquare ==
    /\ op = "pick"
    /\ op' = "nsquare"
    /\ \E k \in 0..MaxNsquare : res' = [n |-> k, self |-> nsquare(x, k)]
    /\ UNCHANGED <<x, comp, buf, dmg, n, acc>>

Next ==
    \/ Invert
    \/ PowChar
    \/ FrobeniusMap
    \/ Frobenius
    \/ FrobeniusSquare
    \/ IsInSubgroup
    \/ Compress
    \/ Uncompress
    \/ UncompressAny
    \/ WriteCompressed
    \/ ReadCompressed
    \/ ReadAny
    \/ IsCyc
    \/ ExptHalfCyclotomicSquare
    \/ ExptHalfMulAssign
    \/ ExptHalfNsquare
    \/ ExptHalfConjugate
    \/ CyclotomicSquare
    \/ Nsquare

Spec == Init /\ [][Next]_vars

---------------------------------------------------------------------------
(* Properties.                                                             *)

\* a^(P^4 - P^2 + 1): the exponent 883^4 - 883^2 + 1 = 607914157033 by its
\* decimal digits
PhiDigits == <<6, 0, 7, 9, 1, 4, 1, 5, 7, 0, 3, 3>>
PowPhi(a) == pow_digits(a, PhiDigits)

\* (b, 1) * (b, -1)^-1, the value uncompress reconstructs from b
Reconstructed(b) ==
    mul(new(b, Fp6One), invert(new(b, Fp6Neg(Fp6One))).value)

\* C1, as claimed: for every (non-zero) a with is_cyc(a), compress(a)
\* returns a value and uncompress of that value returns a.
C1_RoundTripEveryCyc ==
    /\ (op = "compress" /\ x # zero /\ is_cyc(x)) => res.kind = "Some"
    /\ op = "uncompress" => res = Some(x)

\* C1, amended: for every a with is_cyc(a) and c1 # 0, compress(a) returns a
\* value, and uncompress of the value compress returned returns exactly a.
C1_RoundTrip ==
    /\ (op = "compress" /\ is_cyc(x) /\ c1(x) # Fp6Zero) =>
            /\ res.kind = "Some"
            /\ uncompress(res.value) = Some(x)
    /\ op = "uncompress" => res = Some(x)

\* a cyclotomic element other than the identity went through compress and
\* uncompress and came back
C1_Witness ==
    /\ op = "uncompress"
    /\ x \in CycSamples
    /\ c1(x) # Fp6Zero
    /\ res = Some(x)

\* C2: for every non-zero a with c1 = 0 that passes is_cyc (the identity),
\* compress(a) returns the empty result; it does not panic.
C2_EmptyWhenC1Zero ==
    (op = "compress" /\ x # zero /\ c1(x) = Fp6Zero /\ is_cyc(x)) => res = None

\* C3: for every valid cyclotomic element a, the identity included,
\* write_compressed(a) succeeds and read_compressed of the bytes written
\* returns a.
C3_SerializationRoundTrip ==
    /\ (op = "write_compressed" /\ x # zero /\ is_cyc(x)) => res.kind = "Ok"
    /\ (op = "read_compressed" /\ dmg = NoDamage) => res = Ok(x)

\* C4: read_compressed returns an InvalidData error whenever one of the six
\* chunks is not a canonical encoding or the reconstructed value is not
\* cyclotomic, and whenever it returns Ok(c), is_cyc(c) holds.
C4_RejectsMalformed ==
    /\ (op = "read_compressed" /\ dmg.kind \in {"modulus", "high"}) =>
            res = Err("InvalidData")
    /\ (op = "read_any" /\ ~is_cyc(Reconstructed(comp))) =>
            res = Err("InvalidData")
    /\ (op \in {"read_compressed", "read_any"} /\ res.kind = "Ok") =>
            is_cyc(res.value)

\* a stream with a non-canonical chunk was read and rejected
C4_Witness ==
    /\ op = "read_compressed"
    /\ dmg.kind = "modulus"
    /\ res = Err("InvalidData")

\* C5: for every cubic-extension value b, uncompress(b) does not fault
\* ((b, -1) is invertible) and returns the empty result or a value
\* c = (b, 1) * (b, -1)^-1 with is_cyc(c).
C5_UncompressSoft ==
    op \in {"uncompress", "uncompress_any"} =>
        /\ invert(new(comp, Fp6Neg(Fp6One))).is_some
        /\ res.kind \in {"Some", "None"}
        /\ res.kind = "Some" =>
                /\ res.value = Reconstructed(comp)
                /\ is_cyc(res.value)
        /\ res.kind = "None" => ~is_cyc(Reconstructed(comp))

\* uncompress of a value that is no compression of a cyclotomic element
\* returned the empty result
C5_Witness ==
    /\ op = "uncompress_any"
    /\ x \in Samples
    /\ res = None

\* C6: for every a and every i in 0..maxpower, frobenius_map(i) applied
\* once to a equals a raised i times to the characteristic.
C6_FrobeniusConsistency ==
    op = "frobenius_map" => (n \in 0..maxpower /\ res = acc)

\* the table path at the largest power, on an element the map moves
C6_Witness ==
    /\ op = "frobenius_map"
    /\ n = maxpower
    /\ x \in Samples
    /\ res = acc
    /\ res # x

\* C7: frobenius(x) equals frobenius_map(1) of x and frobenius_square(x)
\* equals frobenius_map(2) of x.
C7_FrobeniusPathsAgree ==
    /\ op = "frobenius" => res = frobenius_map(x, 1)
    /\ op = "frobenius_square" => res = frobenius_map(x, 2)

\* frobenius ran on an element it moves
C7_Witness ==
    /\ op = "frobenius"
    /\ x \in Samples
    /\ res = frobenius_map(x, 1)
    /\ res # x

\* C8: is_in_subgroup(a) returning true implies a^(P^4 - P^2 + 1) = 1, and
\* when Frobenius^2(Frobenius^2(a)) * a differs from Frobenius^2(a) it
\* returns false without evaluating the second check.
C8_FirstCheck ==
    op = "is_in_subgroup" =>
        /\ res.ret => PowPhi(x) = one
        /\ (mul(frobenius_square(zero, frobenius_square(zero, x)), x)
                # frobenius_square(zero, x)) =>
                (~res.ret /\ res.evaluated = <<"first">>)

\* a^t for the scalar t of expt (negative): the inverse of a^|t|
PowT(a) == invert(pow_digits(a, TAbsDigits)).value

C10_Invert ==
    op = "invert" =>
        /\ x = zero => ~res.is_some
        /\ x # zero => (res.is_some /\ mul(x, res.value) = one)

\* a non-zero element was inverted
C10_Witness ==
    /\ op = "invert"
    /\ x \in Samples
    /\ res.is_some
    /\ mul(x, res.value) = one

\* C11: is_cyc(a) returns true exactly when a^(P^4 - P^2 + 1) = 1, for every
\* a, and compress returns a value only for elements with that property.
C11_IsCycExactly ==
    /\ op = "is_cyc" => (res <=> PowPhi(x) = one)
    /\ (op = "compress" /\ res.kind = "Some") => PowPhi(x) = one

\* C12: expt_half performs 62 cyclotomic squarings, with a multiplication by
\* x after squarings 1, 3, 6, 15 and 47, and one final conjugation; before the
\* conjugation self holds x to the power 7566188111470821376 and the result
\* is x^(t/2) with t negative, for x in the cyclotomic subgroup; the result
\* does not depend on what self held before.
C12_ExptHalfChain ==
    op = "expt_half" =>
        /\ res.pc >= Len(ExptHalfStatements)
               => /\ res.squarings = 62
                  /\ res.mul_at = <<1, 3, 6, 15, 47>>
                  /\ res.exponent = THalfDigits
        /\ (res.pc = Len(ExptHalfStatements) /\ PowPhi(x) = one)
               => res.self = pow_digits(x, res.exponent)
        /\ res.pc = Len(ExptHalfStatements) + 1
               => /\ res.self = expt_half(res.before, x)
                  /\ res.self = expt_half(zero, x)
                  /\ PowPhi(x) = one
                        => res.self = invert(pow_digits(x, THalfDigits)).value

C12_Witness ==
    /\ op = "expt_half"
    /\ res.pc = Len(ExptHalfStatements) + 1
    /\ PowPhi(x) = one
    /\ x # one
    /\ res.before = x
    /\ res.self # one

\* C13: for every x with x^(P^4 - P^2 + 1) = 1, cyclotomic_square(x) is the
\* general square x * x and nsquare(n) is x^(2^n); nsquare(0) leaves the
\* value unchanged.
C13_CyclotomicSquare ==
    /\ (op = "cyclotomic_square" /\ PowPhi(x) = one)
          => /\ res = mul(x, x)
             /\ res = square(x)
    /\ (op = "nsquare" /\ PowPhi(x) = one)
          => res.self = pow_vartime(x, 2 ^ res.n)
    /\ (op = "nsquare" /\ res.n = 0) => res.self = x

C13_Witness ==
    /\ op = "nsquare"
    /\ res.n >= 2
    /\ PowPhi(x) = one
    /\ x # one
    /\ res.self # x

\* C14: is_in_subgroup emits diagnostic text only when a check fails: a call
\* that returns true has written nothing to the standard output.
C14_SilentOnSuccess ==
    (op = "is_in_subgroup" /\ x # zero /\ res.ret) => res.stdout = <<>>
====
